---- MODULE Spec2Model ----
(***************************************************************************)
(* Course-schedule cleaning pipeline (clean_course_data.py).               *)
(*                                                                         *)
(* Python strings are modelled as sequences of one-character strings, so   *)
(* that strip, upper, split and int work on the characters.  Python's None *)
(* for an optional integer is the empty sequence and the integer n is the  *)
(* one-element sequence <<n>>.  The result of a call that may raise is a   *)
(* record [kind, val]: kind is "return" or the name of the exception.      *)
(***************************************************************************)
EXTENDS Integers, Sequences, FiniteSets, TLC

VARIABLES
  fieldnames,       \* the header names csv.DictReader took from the first line
  input_rows,       \* the rows csv.DictReader will yield, in file order
  idx,              \* how many rows the loop has taken from the reader
  normalized_row,   \* the local normalized_row of the current iteration
  cleaned_records,  \* the list cleaned_records
  pc,               \* position in clean_course_data (or in a function call)
  out_file,         \* the output file on disk
  reported,         \* what line 254 printed, None before
  fn_arg,           \* argument of a library function called on its own
  fn_ret            \* its result

vars == <<fieldnames, input_rows, idx, normalized_row, cleaned_records, pc,
          out_file, reported, fn_arg, fn_ret>>

----------------------------------------------------------------------------
(* Python values *)

None == <<>>

Some(n) == <<n>>

Return(v) == [kind |-> "return", val |-> v]

Raise(e) == [kind |-> e, val |-> None]

Whitespace == {" ", "\t", "\n", "\r"}

Quote == "\""

LowerLetters == <<"a","b","c","d","e","f","g","h","i","j","k","l","m",
                  "n","o","p","q","r","s","t","u","v","w","x","y","z">>

UpperLetters == <<"A","B","C","D","E","F","G","H","I","J","K","L","M",
                  "N","O","P","Q","R","S","T","U","V","W","X","Y","Z">>

DigitChars == <<"0","1","2","3","4","5","6","7","8","9">>

IsDigit(c) == \E i \in 1..10 : DigitChars[i] = c

DigitVal(c) == (CHOOSE i \in 1..10 : DigitChars[i] = c) - 1

(* str.upper(), character by character *)
UpperChar(c) ==
  IF \E i \in 1..26 : LowerLetters[i] = c
  THEN UpperLetters[CHOOSE i \in 1..26 : LowerLetters[i] = c]
  ELSE c

Upper(s) == [i \in 1..Len(s) |-> UpperChar(s[i])]

RECURSIVE LStrip(_, _)
LStrip(s, chars) ==
  IF s # <<>> /\ Head(s) \in chars THEN LStrip(Tail(s), chars) ELSE s

RECURSIVE RStrip(_, _)
RStrip(s, chars) ==
  IF s # <<>> /\ s[Len(s)] \in chars
  THEN RStrip(SubSeq(s, 1, Len(s) - 1), chars)
  ELSE s

(* str.strip(): no argument strips whitespace *)
Strip(s) == RStrip(LStrip(s, Whitespace), Whitespace)

(* str.strip('"') *)
StripQuotes(s) == RStrip(LStrip(s, {Quote}), {Quote})

(* str.split(sep) for a one-character separator *)
RECURSIVE Split(_, _)
Split(s, sep) ==
  IF \E i \in 1..Len(s) : s[i] = sep
  THEN LET i == CHOOSE k \in 1..Len(s) :
                  s[k] = sep /\ \A j \in 1..(k - 1) : s[j] # sep
       IN  <<SubSeq(s, 1, i - 1)>> \o Split(SubSeq(s, i + 1, Len(s)), sep)
  ELSE <<s>>

----------------------------------------------------------------------------
(* int(text): surrounding whitespace, an optional sign, decimal digits with *)
(* single underscores between digits; anything else raises ValueError.      *)

IntSigned(s) == Strip(s) # <<>> /\ Strip(s)[1] \in {"+", "-"}

IntBody(s) == IF IntSigned(s) THEN Tail(Strip(s)) ELSE Strip(s)

IntValid(s) ==
  LET b == IntBody(s) IN
    /\ b # <<>>
    /\ \A i \in 1..Len(b) : IsDigit(b[i]) \/ b[i] = "_"
    /\ b[1] # "_"
    /\ b[Len(b)] # "_"
    /\ \A i \in 1..(Len(b) - 1) : ~(b[i] = "_" /\ b[i + 1] = "_")

RECURSIVE DigitsValue(_, _)
DigitsValue(b, acc) ==
  IF b = <<>> THEN acc
  ELSE DigitsValue(Tail(b),
                   IF Head(b) = "_" THEN acc ELSE acc * 10 + DigitVal(Head(b)))

IntValue(s) ==
  IF Strip(s)[1] = "-" THEN 0 - DigitsValue(IntBody(s), 0)
  ELSE DigitsValue(IntBody(s), 0)

PyInt(s) == IF IntValid(s) THEN Return(Some(IntValue(s))) ELSE Raise("ValueError")

----------------------------------------------------------------------------
(* time_to_minutes *)

(* variant: tokens after the second are ignored *)
TimeBodyDropExtraTokens(t) ==
  LET toks == Split(t, ":") IN
    IF \E i \in 1..Len(toks) : i <= 2 /\ PyInt(toks[i]).kind # "return"
    THEN Raise("ValueError")
    ELSE IF Len(toks) < 2 THEN Raise("ValueError")
    ELSE Return(Some(PyInt(toks[1]).val[1] * 60 + PyInt(toks[2]).val[1]))

(* variant: the hours weigh 100 *)
TimeBodyBase100(t) ==
  LET toks == Split(t, ":") IN
    IF \E i \in 1..Len(toks) : PyInt(toks[i]).kind # "return"
    THEN Raise("ValueError")
    ELSE IF Len(toks) # 2 THEN Raise("ValueError")
    ELSE Return(Some(PyInt(toks[1]).val[1] * 100 + PyInt(toks[2]).val[1]))

(* hours, minutes = map(int, time_str.split(":")); return hours*60+minutes *)
(* unpacking converts the tokens in order and raises ValueError on the     *)
(* first token int rejects, or when there are not exactly two of them      *)
TimeBody(t) ==
  LET toks == Split(t, ":") IN
    IF \E i \in 1..Len(toks) : PyInt(toks[i]).kind # "return"
    THEN Raise("ValueError")
    ELSE IF Len(toks) # 2 THEN Raise("ValueError")
    ELSE Return(Some(PyInt(toks[1]).val[1] * 60 + PyInt(toks[2]).val[1]))

(* except (ValueError, AttributeError): return None *)
TimeCaught == {"ValueError", "AttributeError"}

time_to_minutes(time_str) ==
  IF time_str = <<>> \/ Strip(time_str) = <<>> THEN Return(None)
  ELSE LET r == TimeBody(Strip(time_str)) IN
         IF r.kind \in TimeCaught THEN Return(None) ELSE r

----------------------------------------------------------------------------
(* parse_days *)

day_map == {"M", "T", "W", "R", "F"}

(* the first loop: every character of days_str.upper() that is a key *)
RECURSIVE DayLetters(_)
DayLetters(s) ==
  IF s = <<>> THEN <<>>
  ELSE (IF Head(s) \in day_map THEN <<Head(s)>> ELSE <<>>) \o DayLetters(Tail(s))

(* the second loop: drop duplicates, keep the order *)
RECURSIVE UniqueDays(_, _)
UniqueDays(days, seen) ==
  IF days = <<>> THEN <<>>
  ELSE IF Head(days) \in seen THEN UniqueDays(Tail(days), seen)
  ELSE <<Head(days)>> \o UniqueDays(Tail(days), seen \cup {Head(days)})

(* variant: the second loop is left out *)
ParseDaysKeepDuplicates(days_str) ==
  IF days_str = <<>> THEN <<>> ELSE DayLetters(Upper(days_str))

parse_days(days_str) ==
  IF days_str = <<>> THEN <<>>
  ELSE UniqueDays(DayLetters(Upper(days_str)), {})

----------------------------------------------------------------------------
(* csv.DictReader: the header names and the dictionary of one row *)

(* None as a dictionary key (restkey) or value (restval) *)
PyNone == <<"None">>

K_Subj == <<"S", "u", "b", "j">>

K_Num == <<"#">>

K_Title == <<"T", "i", "t", "l", "e">>

K_Sec == <<"S", "e", "c">>

K_LecLab == <<"L", "e", "c", " ", "L", "a", "b">>

K_StartTime == <<"S", "t", "a", "r", "t", " ", "T", "i", "m", "e">>

K_EndTime == <<"E", "n", "d", " ", "T", "i", "m", "e">>

K_Days == <<"D", "a", "y", "s">>

K_Bldg == <<"B", "l", "d", "g">>

K_Room == <<"R", "o", "o", "m">>

K_MaxEnrollment == <<"M", "a", "x", " ", "E", "n", "r", "o", "l", "l", "m", "e", "n", "t">>

K_CurrentEnrollment == <<"C", "u", "r", "r", "e", "n", "t", " ", "E", "n", "r", "o", "l", "l", "m", "e", "n", "t">>

Header ==
  <<K_Subj, K_Num, K_Title, K_Sec, K_LecLab, K_StartTime, K_EndTime, K_Days,
    K_Bldg, K_Room, K_MaxEnrollment, K_CurrentEnrollment>>

(* the source format pads its header names *)
PaddedHeader == [i \in 1..Len(Header) |-> <<" ">> \o Header[i] \o <<" ", " ">>]

(* DictReader.__next__: dict(zip(fieldnames, row)); the fields beyond the   *)
(* header go, as a list, under the key restkey=None; the header names the  *)
(* row is too short for get restval=None                                   *)
DictRow(names, values) ==
  [k \in {names[i] : i \in 1..Len(names)}
           \cup (IF Len(values) > Len(names) THEN {PyNone} ELSE {}) |->
     IF k = PyNone THEN SubSeq(values, Len(names) + 1, Len(values))
     ELSE LET i == CHOOSE j \in 1..Len(names) : names[j] = k
          IN  IF i <= Len(values) THEN values[i] ELSE PyNone]

(* normalized_row = {k.strip(): v for k, v in row.items()}: None has no    *)
(* strip, so a row with the key None raises AttributeError                 *)
NormalizeKeys(row) ==
  IF PyNone \in DOMAIN row THEN Raise("AttributeError")
  ELSE Return([k2 \in {Strip(k) : k \in DOMAIN row} |->
                 row[CHOOSE k \in DOMAIN row : Strip(k) = k2]])

(* normalized_row.get(key) *)
Get(row, key) == IF key \in DOMAIN row THEN row[key] ELSE PyNone

(* (value or '') *)
OrEmpty(v) == IF v = PyNone \/ v = <<>> THEN <<>> ELSE v

(* (normalized_row.get(key) or '').strip().strip('"') *)
Field(row, key) == StripQuotes(Strip(OrEmpty(Get(row, key))))

----------------------------------------------------------------------------
(* the loop body of clean_course_data *)

EnrollmentCaught == {"ValueError", "TypeError"}

(* variant: 0 stands in for a missing count *)
CoerceEnrollmentDefaultZero(text) ==
  IF text = <<>> THEN Return(Some(0))
  ELSE LET r == PyInt(text) IN
         IF r.kind \in EnrollmentCaught THEN Return(Some(0)) ELSE r

(* int(text) if text else None, except (ValueError, TypeError): None *)
CoerceEnrollment(text) ==
  IF text = <<>> THEN Return(None)
  ELSE LET r == PyInt(text) IN
         IF r.kind \in EnrollmentCaught THEN Return(None) ELSE r

TBA == <<"T", "B", "A">>

ONLINE == <<"O", "N", "L", "I", "N", "E">>

SEE_NOTES == <<"S", "E", "E", " ", "N", "O", "T", "E", "S">>

(* variant: the tokens are compared without upper() *)
TextFilteredCaseSensitive(start_time, end_time, bldg, room) ==
  \/ start_time = TBA \/ end_time = TBA
  \/ start_time = <<>> \/ end_time = <<>>
  \/ bldg = ONLINE \/ bldg = <<>> \/ Strip(bldg) = <<>>
  \/ room = SEE_NOTES

(* the three textual filters: TBA or empty times, ONLINE or empty building, *)
(* SEE NOTES room                                                           *)
TextFiltered(start_time, end_time, bldg, room) ==
  \/ Upper(start_time) = TBA \/ Upper(end_time) = TBA
  \/ start_time = <<>> \/ end_time = <<>>
  \/ Upper(bldg) = ONLINE \/ bldg = <<>> \/ Strip(bldg) = <<>>
  \/ Upper(room) = SEE_NOTES

(* variant: only the start time is looked at *)
TimeFailedStartOnly(start_minutes, end_minutes) == start_minutes = None

(* if start_minutes is None or end_minutes is None: continue *)
TimeFailed(start_minutes, end_minutes) ==
  start_minutes = None \/ end_minutes = None

(* variant: the joined text is not stripped again *)
BuildCourseCodeNoFinalStrip(subj, course_num) ==
  Strip(subj) \o <<" ">> \o Strip(course_num)

(* f"{subj} {course_num}".strip() of the stripped components *)
build_course_code(subj, course_num) ==
  Strip(Strip(subj) \o <<" ">> \o Strip(course_num))

T_LEC == <<"L", "E", "C">>

T_LAB == <<"L", "A", "B">>

T_LCLB == <<"L", "C", "L", "B">>

T_HYBD == <<"H", "Y", "B", "D">>

T_ONL == <<"O", "N", "L">>

T_TD == <<"T", "D">>

type_map == [k \in {T_LEC, T_LAB, T_LCLB, T_HYBD, T_ONL, T_TD} |-> k]

(* variant: the text is stripped and its case kept *)
NormalizeCourseTypeKeepCase(lec_lab) ==
  IF lec_lab = <<>> THEN <<>> ELSE Strip(lec_lab)

(* type_map.get(normalized, normalized) of lec_lab.strip().upper() *)
normalize_course_type(lec_lab) ==
  IF lec_lab = <<>> THEN <<>>
  ELSE LET normalized == Upper(Strip(lec_lab)) IN
         IF normalized \in DOMAIN type_map THEN type_map[normalized]
         ELSE normalized

(* variant: the loop stops after the first day *)
MeetingRecordsFirstDayOnly(day_list, shared) ==
  <<[shared EXCEPT !.day = day_list[1]]>>

(* variant: the days are walked backwards *)
MeetingRecordsReversed(day_list, shared) ==
  [i \in 1..Len(day_list) |->
     [shared EXCEPT !.day = day_list[Len(day_list) + 1 - i]]]

(* for day in day_list: one record per day, the other fields shared *)
MeetingRecords(day_list, shared) ==
  [i \in 1..Len(day_list) |-> [shared EXCEPT !.day = day_list[i]]]

(* one iteration of the loop body after key normalization: the records it  *)
(* appends (none when a filter says continue), or the exception it raises  *)
RowBody(row) ==
  LET subj == Field(row, K_Subj)
      course_num == Field(row, K_Num)
      title == Field(row, K_Title)
      sec == Field(row, K_Sec)
      lec_lab == Field(row, K_LecLab)
      start_time == Field(row, K_StartTime)
      end_time == Field(row, K_EndTime)
      days == Field(row, K_Days)
      bldg == Field(row, K_Bldg)
      room == Field(row, K_Room)
      max_enrollment == CoerceEnrollment(Field(row, K_MaxEnrollment))
      current_enrollment == CoerceEnrollment(Field(row, K_CurrentEnrollment))
      start_minutes == time_to_minutes(start_time)
      end_minutes == time_to_minutes(end_time)
      day_list == parse_days(days)
  IN
    IF max_enrollment.kind # "return" THEN max_enrollment
    ELSE IF current_enrollment.kind # "return" THEN current_enrollment
    ELSE IF TextFiltered(start_time, end_time, bldg, room) THEN Return(<<>>)
    ELSE IF start_minutes.kind # "return" THEN start_minutes
    ELSE IF end_minutes.kind # "return" THEN end_minutes
    ELSE IF TimeFailed(start_minutes.val, end_minutes.val) THEN Return(<<>>)
    ELSE IF day_list = <<>> THEN Return(<<>>)
    ELSE Return(MeetingRecords(day_list,
           [course |-> build_course_code(subj, course_num),
            title |-> title,
            section |-> sec,
            type |-> normalize_course_type(lec_lab),
            building |-> bldg,
            room |-> room,
            day |-> "",
            start_minutes |-> start_minutes.val,
            end_minutes |-> end_minutes.val,
            max_enrollment |-> max_enrollment.val,
            current_enrollment |-> current_enrollment.val]))

(* variant: insert at the front *)
AppendRecordsInFront(records, new) == new \o records

(* cleaned_records.append(record), once per record of the row *)
AppendRecords(records, new) == records \o new

----------------------------------------------------------------------------
(* the input files the runs are checked on *)

MaxRows == 2

s_ALE == <<"A", "L", "E">>

s_2170 == <<"2", "1", "7", "0">>

s_Intro == <<"I", "n", "t", "r", "o">>

s_001 == <<"0", "0", "1">>

s_Lec == <<"L", "e", "c">>

s_CS == <<"C", "S">>

s_101 == <<"1", "0", "1">>

s_Algo == <<" ", "A", "l", "g", "o", " ">>

s_002 == <<"0", "0", "2">>

s_lab == <<"l", "a", "b">>

s_0900 == <<"0", "9", ":", "0", "0">>

s_0950 == <<"0", "9", ":", "5", "0">>

s_1430 == <<"1", "4", ":", "3", "0">>

s_1545 == <<"1", "5", ":", "4", "5">>

s_MWF == <<"M", "W", "F">>

s_TR == <<" ", "T", " ", " ", "R", " ", " ", " ", " ">>

s_W == <<"W">>

s_SCI == <<"S", "C", "I">>

s_HALL == <<"H", "A", "L", "L">>

s_30 == <<"3", "0">>

s_28 == <<"2", "8">>

s_extra == <<"e", "x", "t", "r", "a">>

StartTimeTexts ==
  { <<"0", "9", ":", "0", "0">>,
    <<"2", "3", ":", "5", "9">>,
    <<"2", "5", ":", "9", "9">>,
    <<"T", "B", "A">>,
    <<>>,
    <<"1", "4", ":">> }

EndTimeTexts ==
  { <<"0", "9", ":", "5", "0">>,
    <<"t", "b", "a">>,
    <<"a", "b", ":", "c", "d">>,
    <<"-", "1", ":", "3", "0">> }

DaysTexts ==
  { <<"M", " ", " ", "W", " ", " ", "F", " ", " ", " ">>,
    <<" ", "t", " ", "R">>,
    <<"M", "W", "M">>,
    <<>>,
    <<"X", "Y">> }

BldgTexts ==
  { <<"S", "C", "I">>,
    <<"O", "n", "l", "i", "n", "e">>,
    <<>>,
    <<"\"", " ", "\"">>,
    <<"\"", " ", "O", "N", "L", "I", "N", "E", " ", "\"">> }

RoomTexts ==
  { <<"1", "0", "1">>,
    <<"s", "e", "e", " ", "n", "o", "t", "e", "s">>,
    <<>> }

MaxEnrollmentTexts ==
  { <<"3", "0">>,
    <<"a", "b", "c">>,
    <<>>,
    <<"0">>,
    <<"-", "5">>,
    <<"1", "_", "0">>,
    <<"\"", "3", "0", "\"">>,
    <<"3", ".", "5">> }

CurrentEnrollmentTexts ==
  { <<"2", "8">>,
    <<"2", "x">>,
    <<>>,
    <<"+", "7">> }

(* one line of the file, as csv.reader splits it: the values in header order *)
Values(start_time, end_time, days, bldg, room, max_enrollment, current_enrollment) ==
  <<s_ALE, s_2170, s_Intro, s_001, s_Lec, start_time, end_time, days, bldg,
    room, max_enrollment, current_enrollment>>

(* every combination of the texts the filters read *)
FilterRows ==
  {Values(s, e, d, b, r, s_30, s_28) :
     s \in StartTimeTexts, e \in EndTimeTexts, d \in DaysTexts,
     b \in BldgTexts, r \in RoomTexts}

(* every combination of the enrollment texts, on a kept and on a dropped row *)
EnrollmentRows ==
  {Values(s, s_0950, s_MWF, s_SCI, s_101, m, c) :
     s \in {s_0900, TBA}, m \in MaxEnrollmentTexts, c \in CurrentEnrollmentTexts}

(* rows of the files with several rows: two kept rows, a dropped row, a row *)
(* shorter than the header, a row longer than the header, a row whose type *)
(* keeps literal quotes around padded text                                 *)
SmallRows ==
  { Values(s_0900, s_0950, s_MWF, s_SCI, s_101, s_30, s_28),
    <<s_ALE, s_2170, s_Intro, s_001, <<"\"", " ", "h", "y", "b", "d", " ", "\"">>,
      s_0900, s_0950, s_W, s_SCI, s_101, s_30, s_28>>,
    <<s_CS, s_101, s_Algo, s_002, s_lab, s_1430, s_1545, s_TR, s_HALL, s_101,
      <<>>, s_28>>,
    Values(TBA, TBA, s_MWF, s_SCI, s_101, s_30, s_28),
    <<s_CS, <<>>, s_Intro, s_001, s_Lec, s_1430, s_1545, s_W, s_HALL, s_101>>,
    Values(s_0900, s_0950, s_W, s_SCI, s_101, s_30, s_28) \o <<s_extra>> }

SeqsUpTo(S, n) == UNION {[1..k -> S] : k \in 0..n}

InputFiles ==
  {[fieldnames |-> Header, rows |-> <<v>>] : v \in FilterRows \cup EnrollmentRows}
  \cup {[fieldnames |-> h, rows |-> rs] :
          h \in {Header, PaddedHeader}, rs \in SeqsUpTo(SmallRows, MaxRows)}

----------------------------------------------------------------------------
(* clean_course_data as a state machine *)

NoFile == [exists |-> FALSE, written |-> <<>>, complete |-> FALSE]

Aborted ==
  {"raised_open_in", "raised_read", "raised_keys", "raised_row",
   "raised_open_out", "raised_dump"}

Init ==
  /\ \E f \in InputFiles : fieldnames = f.fieldnames /\ input_rows = f.rows
  /\ idx = 0
  /\ normalized_row = <<>>
  /\ cleaned_records = <<>>
  /\ pc = "open_in"
  /\ out_file = NoFile
  /\ reported = None
  /\ fn_arg = <<>>
  /\ fn_ret = <<>>

(* with open(input_file, 'r', encoding='utf-8') as f; reader = DictReader(f) *)
OpenInput ==
  /\ pc = "open_in"
  /\ pc' = "loop"
  /\ UNCHANGED <<fieldnames, input_rows, idx, normalized_row, cleaned_records,
                 out_file, reported, fn_arg, fn_ret>>

(* the input file is missing or unreadable: open raises *)
OpenInputFails ==
  /\ pc = "open_in"
  /\ pc' = "raised_open_in"
  /\ UNCHANGED <<fieldnames, input_rows, idx, normalized_row, cleaned_records,
                 out_file, reported, fn_arg, fn_ret>>

(* for row in reader, and the key normalization that opens the body *)
ReadRow ==
  /\ pc = "loop"
  /\ idx < Len(input_rows)
  /\ idx' = idx + 1
  /\ LET r == NormalizeKeys(DictRow(fieldnames, input_rows[idx + 1])) IN
       IF r.kind = "return"
       THEN normalized_row' = r.val /\ pc' = "row"
       ELSE pc' = "raised_keys" /\ UNCHANGED normalized_row
  /\ UNCHANGED <<fieldnames, input_rows, cleaned_records, out_file, reported,
                 fn_arg, fn_ret>>

(* reading or decoding the next line fails: the iteration raises *)
ReadRowFails ==
  /\ pc = "loop"
  /\ idx < Len(input_rows)
  /\ pc' = "raised_read"
  /\ UNCHANGED <<fieldnames, input_rows, idx, normalized_row, cleaned_records,
                 out_file, reported, fn_arg, fn_ret>>

(* the rest of the loop body: fields, filters, one record per day *)
HandleRow ==
  /\ pc = "row"
  /\ LET r == RowBody(normalized_row) IN
       IF r.kind = "return"
       THEN /\ cleaned_records' = AppendRecords(cleaned_records, r.val)
            /\ pc' = "loop"
       ELSE /\ pc' = "raised_row"
            /\ UNCHANGED cleaned_records
  /\ UNCHANGED <<fieldnames, input_rows, idx, normalized_row, out_file,
                 reported, fn_arg, fn_ret>>

(* the reader is exhausted; with open(output_file, 'w') creates or empties *)
(* the output file                                                         *)
OpenOutput ==
  /\ pc = "loop"
  /\ idx = Len(input_rows)
  /\ out_file' = [exists |-> TRUE, written |-> <<>>, complete |-> FALSE]
  /\ pc' = "dump"
  /\ UNCHANGED <<fieldnames, input_rows, idx, normalized_row, cleaned_records,
                 reported, fn_arg, fn_ret>>

(* the output destination is unwritable: open raises, nothing is created *)
OpenOutputFails ==
  /\ pc = "loop"
  /\ idx = Len(input_rows)
  /\ pc' = "raised_open_out"
  /\ UNCHANGED <<fieldnames, input_rows, idx, normalized_row, cleaned_records,
                 out_file, reported, fn_arg, fn_ret>>

(* json.dump writes the encoding chunk by chunk: here one record at a time *)
DumpRecord ==
  /\ pc = "dump"
  /\ Len(out_file.written) < Len(cleaned_records)
  /\ out_file' = [out_file EXCEPT
                    !.written = Append(@, cleaned_records[Len(@) + 1])]
  /\ UNCHANGED <<fieldnames, input_rows, idx, normalized_row, cleaned_records,
                 pc, reported, fn_arg, fn_ret>>

(* the last chunk is written and the with block closes the file *)
DumpDone ==
  /\ pc = "dump"
  /\ Len(out_file.written) = Len(cleaned_records)
  /\ out_file' = [out_file EXCEPT !.complete = TRUE]
  /\ pc' = "print"
  /\ UNCHANGED <<fieldnames, input_rows, idx, normalized_row, cleaned_records,
                 reported, fn_arg, fn_ret>>

(* a write, or the flush on close, raises OSError: the file stays as it is *)
DumpFails ==
  /\ pc = "dump"
  /\ pc' = "raised_dump"
  /\ UNCHANGED <<fieldnames, input_rows, idx, normalized_row, cleaned_records,
                 out_file, reported, fn_arg, fn_ret>>

(* print(f"Processed {len(cleaned_records)} course meeting records") *)
Report ==
  /\ pc = "print"
  /\ reported' = Some(Len(cleaned_records))
  /\ pc' = "done"
  /\ UNCHANGED <<fieldnames, input_rows, idx, normalized_row, cleaned_records,
                 out_file, fn_arg, fn_ret>>

Next ==
  \/ OpenInput
  \/ OpenInputFails
  \/ ReadRow
  \/ ReadRowFails
  \/ HandleRow
  \/ OpenOutput
  \/ OpenOutputFails
  \/ DumpRecord
  \/ DumpDone
  \/ DumpFails
  \/ Report

Spec == Init /\ [][Next]_vars

----------------------------------------------------------------------------
(* time_to_minutes and parse_days called on their own *)

MaxTimeLen == 4

MaxDaysLen == 4

TimeAlphabet == {"1", "4", ":", " ", "a", "-", "_"}

DaysAlphabet == {"M", "m", "T", "W", "r", "f", " ", "X"}

TimeExamples ==
  { <<"1", "4", ":", "3", "0">>,
    <<"0", "0", ":", "0", "0">>,
    <<"2", "3", ":", "5", "9">>,
    <<>>,
    <<"T", "B", "A">>,
    <<"1", "4">>,
    <<"1", "4", ":">>,
    <<"a", "b", ":", "c", "d">>,
    <<"1", "4", ":", "3", "0", ":", "0", "0">>,
    <<"2", "5", ":", "9", "9">>,
    <<" ", "1", "4", ":", "3", "0", " ">>,
    <<"1", ":", "4", ":", "1">>,
    <<"-", "1", ":", "3", "0">>,
    <<"1", "_", "0", ":", "0", "5">> }

DaysExamples ==
  { <<"M", " ", " ", "W", " ", " ", "F", " ", " ", " ">>,
    <<" ", "T", " ", " ", "R", " ", " ", " ", " ">>,
    <<" ", " ", "W", " ", " ", " ", " ", " ">>,
    <<"M", "W", "M">>,
    <<>>,
    <<"m", "w", "f">>,
    <<"T", "B", "A">>,
    <<"F", "R", "W", "T", "M">> }

(* every "HH:MM" with HH in 00..23 and MM in 00..59 *)
ClockTimes ==
  {<<DigitChars[(h \div 10) + 1], DigitChars[(h % 10) + 1], ":",
     DigitChars[(m \div 10) + 1], DigitChars[(m % 10) + 1]>> :
     h \in 0..23, m \in 0..59}

TimeInputs == ClockTimes \cup TimeExamples \cup SeqsUpTo(TimeAlphabet, MaxTimeLen)

DaysInputs == DaysExamples \cup SeqsUpTo(DaysAlphabet, MaxDaysLen)

InitFn(args, start) ==
  /\ fn_arg \in args
  /\ fn_ret = <<>>
  /\ pc = start
  /\ fieldnames = <<>>
  /\ input_rows = <<>>
  /\ idx = 0
  /\ normalized_row = <<>>
  /\ cleaned_records = <<>>
  /\ out_file = NoFile
  /\ reported = None

InitTime == InitFn(TimeInputs, "call_time")

CallTimeToMinutes ==
  /\ pc = "call_time"
  /\ fn_ret' = time_to_minutes(fn_arg)
  /\ pc' = "ret_time"
  /\ UNCHANGED <<fieldnames, input_rows, idx, normalized_row, cleaned_records,
                 out_file, reported, fn_arg>>

SpecTime == InitTime /\ [][CallTimeToMinutes]_vars

InitDays == InitFn(DaysInputs, "call_days")

CallParseDays ==
  /\ pc = "call_days"
  /\ fn_ret' = parse_days(fn_arg)
  /\ pc' = "ret_days"
  /\ UNCHANGED <<fieldnames, input_rows, idx, normalized_row, cleaned_records,
                 out_file, reported, fn_arg>>

SpecDays == InitDays /\ [][CallParseDays]_vars

(* build_course_code called on its own, on every pair of short texts *)
MaxCodeLen == 3

CodeAlphabet == {"A", "1", " "}

CodeInputs ==
  {<<a, b>> : a, b \in SeqsUpTo(CodeAlphabet, MaxCodeLen)}
  \cup {<<s_ALE, s_2170>>, <<s_CS, <<>>>>, <<s_Algo, s_101>>}

InitCode == InitFn(CodeInputs, "call_code")

CallBuildCourseCode ==
  /\ pc = "call_code"
  /\ fn_ret' = build_course_code(fn_arg[1], fn_arg[2])
  /\ pc' = "ret_code"
  /\ UNCHANGED <<fieldnames, input_rows, idx, normalized_row, cleaned_records,
                 out_file, reported, fn_arg>>

SpecCode == InitCode /\ [][CallBuildCourseCode]_vars

----------------------------------------------------------------------------
(* Vocabulary of the properties *)

Weekdays == <<"M", "T", "W", "R", "F">>

WeekdaysLower == <<"m", "t", "w", "r", "f">>

(* position of the first character of s that is weekday k, in either case; *)
(* 0 when there is none                                                    *)
FirstPos(s, k) ==
  IF \E i \in 1..Len(s) : s[i] \in {Weekdays[k], WeekdaysLower[k]}
  THEN CHOOSE i \in 1..Len(s) :
         /\ s[i] \in {Weekdays[k], WeekdaysLower[k]}
         /\ \A j \in 1..(i - 1) : s[j] \notin {Weekdays[k], WeekdaysLower[k]}
  ELSE 0

DistinctDayCount(s) == Cardinality({k \in 1..5 : FirstPos(s, k) > 0})

SameLetter(x, y) ==
  x = y \/ \E k \in 1..26 : {x, y} = {LowerLetters[k], UpperLetters[k]}

EqualsIgnoreCase(a, b) ==
  Len(a) = Len(b) /\ \A i \in 1..Len(a) : SameLetter(a[i], b[i])

Blank(s) == \A i \in 1..Len(s) : s[i] \in Whitespace

(* text that reads as a decimal integer: optional surrounding whitespace,  *)
(* an optional sign, digits, single underscores only between two digits    *)
IsIntegerText(s) ==
  \E a \in 1..Len(s) : \E b \in a..Len(s) :
    /\ \A i \in 1..(a - 1) : s[i] \in Whitespace
    /\ \A i \in (b + 1)..Len(s) : s[i] \in Whitespace
    /\ LET f == IF s[a] \in {"+", "-"} THEN a + 1 ELSE a IN
         /\ f <= b
         /\ IsDigit(s[f])
         /\ IsDigit(s[b])
         /\ \A i \in f..b :
              IsDigit(s[i]) \/ (s[i] = "_" /\ IsDigit(s[i - 1]) /\ IsDigit(s[i + 1]))

(* "HH:MM" with two-digit HH in 00..23 and MM in 00..59, and its minutes *)
IsClockTime(s) ==
  /\ Len(s) = 5
  /\ s[3] = ":"
  /\ \A i \in {1, 2, 4, 5} : IsDigit(s[i])
  /\ 10 * DigitVal(s[1]) + DigitVal(s[2]) <= 23
  /\ 10 * DigitVal(s[4]) + DigitVal(s[5]) <= 59

ClockMinutes(s) ==
  (10 * DigitVal(s[1]) + DigitVal(s[2])) * 60 + 10 * DigitVal(s[4]) + DigitVal(s[5])

(* the five exclusion conditions of the Row Filter, on the normalized      *)
(* fields of a row; a field of nothing but whitespace counts as empty      *)
ExcludedByTime(row) ==
  \/ Blank(Field(row, K_StartTime)) \/ Blank(Field(row, K_EndTime))
  \/ EqualsIgnoreCase(Field(row, K_StartTime), TBA)
  \/ EqualsIgnoreCase(Field(row, K_EndTime), TBA)

ExcludedByBldg(row) ==
  Blank(Field(row, K_Bldg)) \/ EqualsIgnoreCase(Field(row, K_Bldg), ONLINE)

ExcludedByRoom(row) == EqualsIgnoreCase(Field(row, K_Room), SEE_NOTES)

ExcludedByParse(row) ==
  \/ time_to_minutes(Field(row, K_StartTime)) = Return(None)
  \/ time_to_minutes(Field(row, K_EndTime)) = Return(None)

ExcludedByDays(row) == parse_days(Field(row, K_Days)) = <<>>

Excluded(row) ==
  \/ ExcludedByTime(row)
  \/ ExcludedByBldg(row)
  \/ ExcludedByRoom(row)
  \/ ExcludedByParse(row)
  \/ ExcludedByDays(row)

(* the records the step just taken appended to cleaned_records *)
Emitted == SubSeq(cleaned_records', Len(cleaned_records) + 1, Len(cleaned_records'))

IsPrefix(a, b) == Len(a) <= Len(b) /\ SubSeq(b, 1, Len(a)) = a

(* how many rows have been through the whole loop body *)
Processed == IF pc \in {"row", "raised_keys", "raised_row"} THEN idx - 1 ELSE idx

RowDict(j) == NormalizeKeys(DictRow(fieldnames, input_rows[j])).val

RECURSIVE SumTo(_, _)
SumTo(f, n) == IF n = 0 THEN 0 ELSE f[n] + SumTo(f, n - 1)

RECURSIVE Flatten(_, _)
Flatten(f, n) == IF n = 0 THEN <<>> ELSE Flatten(f, n - 1) \o f[n]

OnlyRowIs(start_time, end_time, days, bldg, room) ==
  /\ Len(input_rows) = 1
  /\ pc = "loop"
  /\ idx = 1
  /\ Field(normalized_row, K_StartTime) = start_time
  /\ Field(normalized_row, K_EndTime) = end_time
  /\ Field(normalized_row, K_Days) = days
  /\ Field(normalized_row, K_Bldg) = bldg
  /\ Field(normalized_row, K_Room) = room

----------------------------------------------------------------------------
(* C1: a row for which one of the five exclusion conditions holds (time    *)
(* empty or TBA, building empty or ONLINE, room SEE NOTES, a time that     *)
(* time_to_minutes cannot parse, a day pattern without weekday code)       *)
(* contributes no record, whatever its other fields, and the loop goes on  *)
(* to the next row without an error.                                       *)
C1_ExcludedRowEmitsNothing ==
  [][(pc = "row" /\ Excluded(normalized_row))
       => (cleaned_records' = cleaned_records /\ pc' = "loop")]_vars

(* only the building condition holds: "Online", every other field valid *)
C1_Witness ==
  /\ OnlyRowIs(s_0900, s_0950, <<"M", " ", " ", "W", " ", " ", "F">>,
               <<"O", "n", "l", "i", "n", "e">>, s_101)
  /\ cleaned_records = <<>>

(* C2: a row that no exclusion condition holds for, whose day pattern has  *)
(* k distinct weekday codes, appends exactly k records, which are equal in *)
(* every field but day and whose days are the codes in the order           *)
(* parse_days returned them.                                               *)
C2_OneRecordPerDay ==
  [][(pc = "row" /\ ~Excluded(normalized_row))
       => LET ds == parse_days(Field(normalized_row, K_Days)) IN
            /\ IsPrefix(cleaned_records, cleaned_records')
            /\ Len(Emitted) = DistinctDayCount(Field(normalized_row, K_Days))
            /\ Len(Emitted) = Len(ds)
            /\ \A i \in 1..Len(Emitted) : Emitted[i].day = ds[i]
            /\ \A i, j \in 1..Len(Emitted) :
                 [Emitted[i] EXCEPT !.day = ""] = [Emitted[j] EXCEPT !.day = ""]]_vars

(* Days "M  W  F" gave three records, M then W then F *)
C2_Witness ==
  /\ OnlyRowIs(s_0900, s_0950, <<"M", " ", " ", "W", " ", " ", "F">>, s_SCI, s_101)
  /\ Len(cleaned_records) = 3
  /\ cleaned_records[1].day = "M"
  /\ cleaned_records[2].day = "W"
  /\ cleaned_records[3].day = "F"
  /\ cleaned_records[1].course = cleaned_records[3].course

(* C3: at every point of the run the number of records emitted so far is   *)
(* the sum, over the rows processed so far that are not excluded, of the   *)
(* number of distinct weekday codes of the row's day pattern; a run that   *)
(* succeeds reports this number for the whole input.                       *)
C3_CountIsSumOfDays ==
  LET contribution == [j \in 1..Processed |->
        IF Excluded(RowDict(j)) THEN 0
        ELSE DistinctDayCount(Field(RowDict(j), K_Days))]
  IN /\ Len(cleaned_records) = SumTo(contribution, Processed)
     /\ pc = "done" => (Processed = Len(input_rows)
                        /\ reported = Some(Len(cleaned_records)))

(* a dropped row then a three-day row: the run reports 3 *)
C3_Witness ==
  /\ pc = "done"
  /\ Len(input_rows) = 2
  /\ Excluded(RowDict(1))
  /\ ~Excluded(RowDict(2))
  /\ reported = Some(3)

(* C4: the output sequence only grows at its end, and it is at every point *)
(* the records of the processed rows in input order, each row's records in *)
(* the order of its weekday codes: a function of the input alone.          *)
C4_AppendOnlyInRowOrder ==
  /\ [](LET emitted == [j \in 1..Processed |-> RowBody(RowDict(j)).val]
        IN cleaned_records = Flatten(emitted, Processed))
  /\ [][IsPrefix(cleaned_records, cleaned_records')]_vars

(* two kept rows: the three records of the first precede the two of the *)
(* second                                                               *)
C4_Witness ==
  /\ pc = "loop"
  /\ idx = 2
  /\ Len(cleaned_records) = 5
  /\ \A i \in 1..3 : cleaned_records[i].section = s_001
  /\ \A i \in 4..5 : cleaned_records[i].section = s_002
  /\ cleaned_records[4].day = "T"
  /\ cleaned_records[5].day = "R"

(* C5: parse_days returns weekday codes only, each at most once, in the    *)
(* order in which each first occurs in the input, a letter counting in     *)
(* either case and every other character being skipped; an input without   *)
(* weekday letter, the empty one included, gives the empty list.           *)
C5_ParseDaysFirstOccurrence ==
  pc = "ret_days" =>
    /\ \A i \in 1..Len(fn_ret) : \E k \in 1..5 : fn_ret[i] = Weekdays[k]
    /\ \A i, j \in 1..Len(fn_ret) : fn_ret[i] = fn_ret[j] => i = j
    /\ \A k \in 1..5 :
         FirstPos(fn_arg, k) > 0 <=> \E i \in 1..Len(fn_ret) : fn_ret[i] = Weekdays[k]
    /\ \A i, j \in 1..Len(fn_ret) : \A k, l \in 1..5 :
         (i < j /\ fn_ret[i] = Weekdays[k] /\ fn_ret[j] = Weekdays[l])
           => FirstPos(fn_arg, k) < FirstPos(fn_arg, l)
    /\ (\A k \in 1..5 : FirstPos(fn_arg, k) = 0) => fn_ret = <<>>

(* "MWM" gave M, W *)
C5_Witness ==
  /\ pc = "ret_days"
  /\ fn_arg = <<"M", "W", "M">>
  /\ fn_ret = <<"M", "W">>

(* C6: for "HH:MM" with HH in 00..23 and MM in 00..59, time_to_minutes     *)
(* returns HH*60+MM, a number in 0..1439.                                  *)
C6_ClockTimeToMinutes ==
  (pc = "ret_time" /\ IsClockTime(fn_arg)) =>
    /\ fn_ret = Return(Some(ClockMinutes(fn_arg)))
    /\ fn_ret.val[1] \in 0..1439

(* "23:59" gave 1439 *)
C6_Witness ==
  /\ pc = "ret_time"
  /\ fn_arg = <<"2", "3", ":", "5", "9">>
  /\ fn_ret = Return(Some(1439))

(* C7: for an input that is empty, only whitespace, or not two integer     *)
(* texts with one colon between them, time_to_minutes returns None and     *)
(* raises nothing.                                                         *)
C7_UnparseableTimeIsNone ==
  (/\ pc = "ret_time"
   /\ \/ Blank(fn_arg)
      \/ ~(\E i \in 1..Len(fn_arg) :
             /\ fn_arg[i] = ":"
             /\ \A j \in 1..Len(fn_arg) : fn_arg[j] = ":" => j = i
             /\ IsIntegerText(SubSeq(fn_arg, 1, i - 1))
             /\ IsIntegerText(SubSeq(fn_arg, i + 1, Len(fn_arg)))))
    => fn_ret = Return(None)

(* "14:30:00", three integer tokens, gave None *)
C7_Witness ==
  /\ pc = "ret_time"
  /\ fn_arg = <<"1", "4", ":", "3", "0", ":", "0", "0">>
  /\ fn_ret = Return(None)

(* C8, as stated: every emitted record has start_minutes and end_minutes   *)
(* that are integers in [0, 1439].                                         *)
C8_MinutesWithinDay ==
  \A i \in 1..Len(cleaned_records) :
    /\ Len(cleaned_records[i].start_minutes) = 1
    /\ Len(cleaned_records[i].end_minutes) = 1
    /\ cleaned_records[i].start_minutes[1] \in 0..1439
    /\ cleaned_records[i].end_minutes[1] \in 0..1439

(* C8, amended: every emitted record has start_minutes and end_minutes     *)
(* that are integers, never None, and each is in [0, 1439] when the time   *)
(* text it was made from is "HH:MM" with HH in 00..23 and MM in 00..59;    *)
(* the range of any other time text is not checked.                        *)
C8_MinutesAreIntegers ==
  [][pc = "row" =>
       \A i \in 1..Len(Emitted) :
         /\ Len(Emitted[i].start_minutes) = 1
         /\ Len(Emitted[i].end_minutes) = 1
         /\ Emitted[i].start_minutes[1] \in Int
         /\ Emitted[i].end_minutes[1] \in Int
         /\ IsClockTime(Field(normalized_row, K_StartTime))
              => Emitted[i].start_minutes[1] \in 0..1439
         /\ IsClockTime(Field(normalized_row, K_EndTime))
              => Emitted[i].end_minutes[1] \in 0..1439]_vars

(* "25:99" to "09:50": records with start_minutes 1599 and end_minutes 590 *)
C8_Witness ==
  /\ pc = "loop"
  /\ Field(normalized_row, K_StartTime) = <<"2", "5", ":", "9", "9">>
  /\ cleaned_records # <<>>
  /\ \A i \in 1..Len(cleaned_records) :
       /\ cleaned_records[i].start_minutes = Some(1599)
       /\ cleaned_records[i].end_minutes = Some(590)

(* the value an enrollment text stands for *)
EnrollmentOf(text) ==
  IF text = <<>> \/ ~IsIntegerText(text) THEN None ELSE Some(IntValue(text))

(* C9: for each enrollment column, every record of the row carries None    *)
(* when the text is empty or no integer, and the integer when it is one;   *)
(* nothing is raised and the row is kept or dropped as its other fields    *)
(* say.                                                                    *)
C9_EnrollmentNoneOrInteger ==
  [][pc = "row" =>
       /\ pc' = "loop"
       /\ ~Excluded(normalized_row) => Emitted # <<>>
       /\ \A i \in 1..Len(Emitted) :
            /\ Emitted[i].max_enrollment =
                 EnrollmentOf(Field(normalized_row, K_MaxEnrollment))
            /\ Emitted[i].current_enrollment =
                 EnrollmentOf(Field(normalized_row, K_CurrentEnrollment))]_vars

(* Max Enrollment "abc", Current Enrollment "+7": the row is kept, its     *)
(* records carry None and 7                                                *)
C9_Witness ==
  /\ pc = "loop"
  /\ Field(normalized_row, K_MaxEnrollment) = <<"a", "b", "c">>
  /\ Field(normalized_row, K_CurrentEnrollment) = <<"+", "7">>
  /\ Len(cleaned_records) = 3
  /\ \A i \in 1..3 :
       /\ cleaned_records[i].max_enrollment = None
       /\ cleaned_records[i].current_enrollment = Some(7)

(* C10: when the run has ended, by finishing or by an exception, either    *)
(* the output file holds the complete collection or there is no output     *)
(* file.                                                                   *)
C10_OutputAllOrNothing ==
  (pc = "done" \/ pc \in Aborted) =>
    \/ ~out_file.exists
    \/ (out_file.complete /\ out_file.written = cleaned_records)

(* neither whitespace nor a double quote at either end *)
CleanEnds(s) ==
  s = <<>> \/ (/\ s[1] \notin Whitespace \cup {Quote}
               /\ s[Len(s)] \notin Whitespace \cup {Quote})

(* the ten columns read as text *)
TextColumns ==
  {K_Subj, K_Num, K_Title, K_Sec, K_LecLab, K_StartTime, K_EndTime, K_Days,
   K_Bldg, K_Room}

(* C11: every normalized text field of every row (subject, number, title,  *)
(* section, type, start time, end time, days, building, room) has neither  *)
(* whitespace nor a double quote at either end, and so have the title,     *)
(* section, building and room of every emitted record.                     *)
C11_FieldsHaveCleanEnds ==
  /\ \A k \in TextColumns : CleanEnds(Field(normalized_row, k))
  /\ \A i \in 1..Len(cleaned_records) :
       /\ CleanEnds(cleaned_records[i].title)
       /\ CleanEnds(cleaned_records[i].section)
       /\ CleanEnds(cleaned_records[i].building)
       /\ CleanEnds(cleaned_records[i].room)

(* s without the whitespace at its ends, by positions *)
Trimmed(s) ==
  IF Blank(s) THEN <<>>
  ELSE LET a == CHOOSE i \in 1..Len(s) :
                  s[i] \notin Whitespace /\ \A j \in 1..(i - 1) : s[j] \in Whitespace
           b == CHOOSE i \in 1..Len(s) :
                  s[i] \notin Whitespace /\ \A j \in (i + 1)..Len(s) : s[j] \in Whitespace
       IN  SubSeq(s, a, b)

(* C12: build_course_code returns the two trimmed components with exactly *)
(* one space between them when both are non-empty, the non-empty one alone *)
(* when the other is empty, and the empty string when both are empty.      *)
C12_CourseCodeJoin ==
  pc = "ret_code" =>
    LET subj == Trimmed(fn_arg[1])
        num == Trimmed(fn_arg[2])
    IN  /\ (subj # <<>> /\ num # <<>>) => fn_ret = subj \o <<" ">> \o num
        /\ (subj # <<>> /\ num = <<>>) => fn_ret = subj
        /\ (subj = <<>> /\ num # <<>>) => fn_ret = num
        /\ (subj = <<>> /\ num = <<>>) => fn_ret = <<>>

(* "CS" with no number gave "CS", without a trailing space *)
C12_Witness ==
  /\ pc = "ret_code"
  /\ fn_arg = <<s_CS, <<>>>>
  /\ fn_ret = s_CS

(* C13: the content of a data row never aborts the run: a row with fewer   *)
(* fields than the header and a row with more fields than the header are   *)
(* each turned into records or skipped, and the loop goes on, so that      *)
(* after the last row the run is at the writing of the output.             *)
C13_NoRowAbortsRun ==
  /\ pc \notin {"raised_keys", "raised_row"}
  /\ (pc = "loop" /\ idx = Len(input_rows)) => ENABLED OpenOutput

HasLowerLetter(s) == \E i \in 1..Len(s) : \E k \in 1..26 : s[i] = LowerLetters[k]

(* the fields of a record that C14 says are copied from the row *)
CopiesRow(rec, row) ==
  /\ rec.title = Field(row, K_Title)
  /\ rec.section = Field(row, K_Sec)
  /\ rec.building = Field(row, K_Bldg)
  /\ rec.room = Field(row, K_Room)
  /\ rec.max_enrollment = EnrollmentOf(Field(row, K_MaxEnrollment))
  /\ rec.current_enrollment = EnrollmentOf(Field(row, K_CurrentEnrollment))

(* C14, as stated: every record of a row carries the row's normalized      *)
(* title, section, type, building, room and enrollments unchanged, the     *)
(* type being the Lec Lab text in its original letter case, and only day   *)
(* differs between the records of the row.                                 *)
C14_SharedFieldsVerbatim ==
  [][pc = "row" =>
       \A i \in 1..Len(Emitted) :
         /\ CopiesRow(Emitted[i], normalized_row)
         /\ Emitted[i].type = Field(normalized_row, K_LecLab)
         /\ [Emitted[i] EXCEPT !.day = ""] = [Emitted[1] EXCEPT !.day = ""]]_vars

(* C14, amended: every record of a row carries the row's normalized title, *)
(* section, building, room and enrollments unchanged; its type is the Lec  *)
(* Lab text trimmed and converted to upper case; only day differs between  *)
(* the records of the row.                                                 *)
C14_SharedFieldsTypeUpperCased ==
  [][pc = "row" =>
       \A i \in 1..Len(Emitted) :
         /\ CopiesRow(Emitted[i], normalized_row)
         /\ EqualsIgnoreCase(Emitted[i].type, Trimmed(Field(normalized_row, K_LecLab)))
         /\ ~HasLowerLetter(Emitted[i].type)
         /\ [Emitted[i] EXCEPT !.day = ""] = [Emitted[1] EXCEPT !.day = ""]]_vars

(* Lec Lab "lab", Title " Algo ": two records of type "LAB" and title      *)
(* "Algo"                                                                  *)
C14_Witness ==
  /\ pc = "loop"
  /\ Field(normalized_row, K_LecLab) = s_lab
  /\ Len(cleaned_records) >= 2
  /\ \A i \in {Len(cleaned_records) - 1, Len(cleaned_records)} :
       /\ cleaned_records[i].type = T_LAB
       /\ cleaned_records[i].title = <<"A", "l", "g", "o">>
       /\ cleaned_records[i].section = s_002
       /\ cleaned_records[i].building = s_HALL

====
